---- MODULE Spec2Model ----
(***************************************************************************)
(* Model of gpx_converter.py: main() fetches a Yandex Maps bookmarks page, *)
(* extracts the embedded JSON, resolves every bookmark to coordinates and  *)
(* writes one GPX file.                                                    *)
(*                                                                         *)
(* Python strings are sequences of tokens (a token is a run of characters  *)
(* that the program never cuts: a word, a decimal literal, a separator).   *)
(* Python values are tagged records [t |-> type, v |-> payload].           *)
(***************************************************************************)
EXTENDS Integers, Sequences, FiniteSets, TLC

\* Longest children list of an input page.
MaxChildren == 3

-----------------------------------------------------------------------------
(* Python values *)

None == [t |-> "none"]
Str(s) == [t |-> "str", v |-> s]
Dict(r) == [t |-> "dict", v |-> r]
List(s) == [t |-> "list", v |-> s]
EmptyDict == [t |-> "dict", v |-> [k \in {} |-> None]]

\* Outcome of an expression: a value, or the exception it raised.
Ok(x) == [exc |-> "none", val |-> x]
Raise(e) == [exc |-> e, val |-> None]

\* bool(x) as used by "if not x" / "x or y".
Truthy(x) ==
  CASE x.t = "none" -> FALSE
    [] x.t = "dict" -> DOMAIN x.v # {}
    [] x.t = "list" -> Len(x.v) > 0
    [] x.t = "str" -> Len(x.v) > 0
    [] OTHER -> TRUE

\* x.get(k, default)
DictGet(x, k, default) ==
  IF x.t # "dict" THEN Raise("AttributeError")
  ELSE IF k \in DOMAIN x.v THEN Ok(x.v[k]) ELSE Ok(default)

\* x[k] for a string key
GetKey(x, k) ==
  CASE x.t = "dict" -> IF k \in DOMAIN x.v THEN Ok(x.v[k]) ELSE Raise("KeyError")
    [] OTHER -> Raise("TypeError")

\* x[i] for a 0-based integer index
GetIndex(x, i) ==
  CASE x.t = "list" -> IF i + 1 \in DOMAIN x.v THEN Ok(x.v[i + 1]) ELSE Raise("IndexError")
    [] x.t = "dict" -> Raise("KeyError")
    [] x.t = "str" -> IF i + 1 \in DOMAIN x.v THEN Ok(Str(<<x.v[i + 1]>>)) ELSE Raise("IndexError")
    [] OTHER -> Raise("TypeError")

\* x[p1][p2]...: the first failing subscript raises.
RECURSIVE Navigate(_, _)
Navigate(x, path) ==
  IF path = <<>> THEN Ok(x)
  ELSE LET step == Head(path)
           r == IF step.kind = "key" THEN GetKey(x, step.key) ELSE GetIndex(x, step.idx)
       IN IF r.exc # "none" THEN r ELSE Navigate(r.val, Tail(path))

K(k) == [kind |-> "key", key |-> k, idx |-> 0]
I(i) == [kind |-> "idx", key |-> "", idx |-> i]

-----------------------------------------------------------------------------
(* str methods *)

\* sub in s
Contains(s, sub) ==
  \E i \in 0..(Len(s) - Len(sub)) : SubSeq(s, i + 1, i + Len(sub)) = sub

\* s.split(sep) for a one-token separator
RECURSIVE Split(_, _)
Split(s, sep) ==
  IF \A i \in DOMAIN s : s[i] # sep THEN <<s>>
  ELSE LET p == CHOOSE i \in DOMAIN s : s[i] = sep /\ \A j \in 1..(i - 1) : s[j] # sep
       IN <<SubSeq(s, 1, p - 1)>> \o Split(SubSeq(s, p + 1, Len(s)), sep)

\* s.replace(old, new) for one-token old and new
Replace(s, old, new) == [i \in DOMAIN s |-> IF s[i] = old THEN new ELSE s[i]]

\* urllib.parse.unquote: the only escape in the alphabet is %2C
Unquote(s) == Replace(s, "%2C", ",")

\* s.strip() of whitespace
RECURSIVE Strip(_)
Strip(s) ==
  IF s = <<>> THEN s
  ELSE IF Head(s) = " " THEN Strip(Tail(s))
  ELSE IF s[Len(s)] = " " THEN Strip(SubSeq(s, 1, Len(s) - 1))
  ELSE s

\* Decimal literals of the alphabet and the floats they denote, in tenths.
Literals == {"37.6", "55.7", "30.50"}
LiteralValue(tok) ==
  CASE tok = "37.6" -> 376
    [] tok = "55.7" -> 557
    [] tok = "30.50" -> 305

\* float(s): surrounding whitespace is ignored, the rest must be one literal.
Float(s) ==
  LET body == Strip(s)
  IN IF Len(body) = 1 /\ body[1] \in Literals THEN Ok(LiteralValue(body[1]))
     ELSE Raise("ValueError")

\* str(f) of a float: the shortest decimal form
FloatStr(f) ==
  CASE f = 376 -> "37.6"
    [] f = 557 -> "55.7"
    [] f = 305 -> "30.5"

\* lon, lat = map(float, parts)
UnpackLonLat(parts) ==
  IF Len(parts) # 2 THEN Raise("ValueError")
  ELSE LET a == Float(parts[1])
           b == Float(parts[2])
       IN IF a.exc # "none" THEN a
          ELSE IF b.exc # "none" THEN b
          ELSE Ok([lon |-> a.val, lat |-> b.val])

-----------------------------------------------------------------------------
(* Inputs *)

\* args.output_dir
output_dir == <<"out">>

\* The two URLs: file:///C:/page.html (or file:page.html) and an https page.
Urls ==
  { [scheme |-> "file", path |-> <<"/", "C:", "/", "page.html">>],
    [scheme |-> "file", path |-> <<"page.html">>],
    [scheme |-> "https", path |-> <<"/", "maps", "/", "list">>] }

OsNames == {"nt", "posix"}

TheKey == Str(<<"KEY">>)
KeyInputs == {None, TheKey}

DefaultTitle == <<"Bez", " ", "nazvaniya">>   \* "Без названия"
DefaultAddress == <<"Adres", " ", "ne", " ", "opredelyon">>   \* "Адрес не определён"

\* "ymapsbm1://pin?ll=" and "ymapsbm1://org?oid="
PinMarker == <<"ymapsbm1://pin?", "ll=">>
OrgMarker == <<"ymapsbm1://org?oid=">>

UriPinA == PinMarker \o <<"37.6", ",", "55.7">>
UriPinB == PinMarker \o <<"55.7", "%2C", "30.50">>
UriPinOne == PinMarker \o <<"37.6">>
UriPinWord == PinMarker \o <<"37.6", ",", "north">>
UriOrg == OrgMarker \o <<"1124715036">>
UriOther == <<"https://", "yandex.ru", "/", "maps">>

Entries ==
  { Dict([uri |-> Str(UriPinA), title |-> Str(<<"Point", " ", "A">>)]),
    Dict([uri |-> Str(UriPinB)]),
    Dict([uri |-> Str(UriPinOne), title |-> Str(<<"One">>)]),
    Dict([uri |-> Str(UriPinWord), title |-> Str(<<"Word">>)]),
    Dict([uri |-> Str(UriOrg), title |-> Str(<<"Cafe">>)]),
    Dict([uri |-> Str(UriOther), title |-> Str(<<"Link">>)]),
    Dict([title |-> Str(<<"Bare">>)]) }

ChildLists == UNION { [1..n -> Entries] : n \in 0..MaxChildren }

Titles == { <<"My", " ", "Spots">>, <<"Cafes", "/", "Bars">>, <<"/", "tmp", "/", "x">> }

BookmarkLists ==
  { Dict([title |-> Str(t), children |-> List(c)]) : t \in Titles, c \in ChildLists }
    \cup { Dict([children |-> List(c)]) : c \in ChildLists }
    \cup { Dict([title |-> Str(<<"My", " ", "Spots">>)]), EmptyDict }

PageValues ==
  { Dict([config |-> Dict([bookmarksPublicList |-> b])]) : b \in BookmarkLists }
    \cup { Dict([config |-> EmptyDict]), Dict([other |-> EmptyDict]), EmptyDict, None }

\* A text: well-formed JSON denoting a value, or not JSON at all.
JsonText(v) == [wf |-> TRUE, json |-> v]
Garbage == [wf |-> FALSE, json |-> None]
EmptyText == Garbage

\* A page: marker says whether the state-view script block occurs in it; body is
\* the text inside the block, or the whole text when there is no block.
Pages ==
  { [marker |-> TRUE, body |-> JsonText(v)] : v \in PageValues }
    \cup { [marker |-> TRUE, body |-> Garbage],
           [marker |-> FALSE, body |-> Garbage],
           [marker |-> FALSE,
            body |-> JsonText(Dict([config |-> Dict([bookmarksPublicList |->
                       Dict([title |-> Str(<<"My", " ", "Spots">>),
                             children |-> List(<<Dict([uri |-> Str(UriPinA)])>>)])])]))] }

\* Geocoder answers
Feature(point, meta) == Dict([GeoObject |-> Dict([Point |-> point, metaDataProperty |-> meta])])
Point(pos) == Dict([pos |-> Str(pos)])
Meta(text) == Dict([GeocoderMetaData |-> Dict([text |-> Str(text)])])
GeoData(fm) == Dict([response |-> Dict([GeoObjectCollection |-> Dict([featureMember |-> fm])])])
Addr == <<"Moscow", " ", "Tverskaya">>

GeoBodies ==
  { GeoData(List(<<Feature(Point(<<"37.6", " ", "55.7">>), Meta(Addr))>>)),
    GeoData(List(<<Feature(Point(<<"30.50", " ", "37.6">>), Meta(<<>>))>>)),
    GeoData(List(<<>>)),
    GeoData(List(<<Feature(EmptyDict, Meta(Addr))>>)),
    GeoData(List(<<Feature(Point(<<"37.6", " ", "55.7">>), EmptyDict)>>)),
    GeoData(None),
    GeoData(List(<<Feature(None, Meta(Addr))>>)),
    GeoData(List(<<Feature(Point(<<"37.6">>), Meta(Addr))>>)),
    GeoData(List(<<Feature(Point(<<"37.6", " ", "north">>), Meta(Addr))>>)) }

GeoResponses ==
  { [status |-> "ok", body |-> b] : b \in GeoBodies }
    \cup { [status |-> "error", body |-> None] }

-----------------------------------------------------------------------------
(* State of one run of main() *)

VARIABLES
  pc,          \* position in main(): check_dir, fetch, extract, loop, write,
               \* done (file saved), returned (early return), crashed (unhandled exception)
  url,         \* urlparse(args.url)
  os_name,     \* os.name
  api_key,     \* args.api_key or os.environ.get("YANDEX_GEOCODER_API_KEY")
  data,        \* the fetched page
  list_title,  \* title of the bookmark list
  children,    \* its entries
  idx,         \* 1-based position of the for loop in children
  gpx,         \* the wpt elements of gpx_root, in document order
  net,         \* HTTP requests issued so far, in order
  file,        \* <<>> or <<the written output file>>
  out,         \* messages printed so far
  exc          \* the unhandled exception that ended the run, "none" otherwise

vars == <<pc, url, os_name, api_key, data, list_title, children, idx, gpx, net, file, out, exc>>

\* args.api_key or os.environ.get(...)
ApiKey(arg, env) == IF Truthy(arg) THEN arg ELSE env

Init ==
  /\ pc = "check_dir"
  /\ url \in Urls
  /\ os_name \in OsNames
  /\ \E arg \in KeyInputs, env \in KeyInputs : api_key = ApiKey(arg, env)
  /\ data = [marker |-> FALSE, body |-> EmptyText]
  /\ list_title = <<>>
  /\ children = <<>>
  /\ idx = 1
  /\ gpx = <<>>
  /\ net = <<>>
  /\ file = <<>>
  /\ out = <<>>
  /\ exc = "none"

Say(msg) == out' = Append(out, msg)
Return(msg) == pc' = "returned" /\ Say(msg) /\ exc' = "none"
Crash(e) == pc' = "crashed" /\ exc' = e

\* if not os.path.isdir(output_dir): ... return
CheckDir ==
  /\ pc = "check_dir"
  /\ \E isdir \in BOOLEAN :
       IF ~isdir
       THEN Return("no_output_dir")
       ELSE pc' = "fetch" /\ UNCHANGED <<out, exc>>
  /\ UNCHANGED <<url, os_name, api_key, data, list_title, children, idx, gpx, net, file>>

\* The local variable path at open(): assigned on Windows for a path with a
\* leading slash, unbound otherwise.
LocalPath(name, p) ==
  IF name = "nt" /\ p # <<>> /\ Head(p) = "/" THEN <<Tail(p)>> ELSE <<>>

\* scheme == "file": open and read the file
FetchFile ==
  /\ pc = "fetch"
  /\ url.scheme = "file"
  /\ IF LocalPath(os_name, url.path) = <<>>
     THEN Crash("UnboundLocalError") /\ UNCHANGED <<data, out>>
     ELSE \E res \in {"read", "IOError", "UnicodeDecodeError"} :
            CASE res = "read" ->
                   /\ \E page \in Pages : data' = page
                   /\ pc' = "extract"
                   /\ UNCHANGED <<out, exc>>
              [] res = "IOError" -> Return("read_error") /\ UNCHANGED data
              [] OTHER -> Crash(res) /\ UNCHANGED <<data, out>>
  /\ UNCHANGED <<url, os_name, api_key, list_title, children, idx, gpx, net, file>>

\* otherwise: requests.get(url); raise_for_status(); response.text
FetchHttp ==
  /\ pc = "fetch"
  /\ url.scheme # "file"
  /\ \E res \in {"ok", "error"} :
       /\ net' = Append(net, [op |-> "page", idx |-> 0, resp |-> [status |-> res, body |-> None]])
       /\ IF res = "ok"
          THEN /\ \E page \in Pages : data' = page
               /\ pc' = "extract"
               /\ UNCHANGED <<out, exc>>
          ELSE Return("fetch_error") /\ UNCHANGED data
  /\ UNCHANGED <<url, os_name, api_key, list_title, children, idx, gpx, file>>

\* Variant: the whole text is parsed when the pattern does not match.
ScriptContentWholeText(d) == d.body

\* match.group(1) if the pattern matches, '' otherwise
ScriptContent(d) == IF d.marker THEN d.body ELSE EmptyText

\* json.loads
JsonLoads(text) == IF text.wf THEN Ok(text.json) ELSE Raise("JSONDecodeError")

\* data_json.get("config").get("bookmarksPublicList")
BookmarksList(data_json) ==
  LET config == DictGet(data_json, "config", None)
  IN IF config.exc # "none" THEN config
     ELSE DictGet(config.val, "bookmarksPublicList", None)

\* Lines 49-97: from the fetched text to the bookmark list and the empty tree.
Extract ==
  /\ pc = "extract"
  /\ LET found == data.marker
         shown == IF found THEN out ELSE Append(out, "script_not_found")
         data_json == JsonLoads(ScriptContent(data))
         bookmarks_list == BookmarksList(data_json.val)
         title == DictGet(bookmarks_list.val, "title", Str(DefaultTitle))
         kids == DictGet(bookmarks_list.val, "children", List(<<>>))
         stop(msg) == /\ pc' = "returned" /\ out' = Append(shown, msg) /\ exc' = "none"
                      /\ UNCHANGED <<list_title, children>>
         raise(e) == /\ pc' = "crashed" /\ out' = shown /\ exc' = e
                     /\ UNCHANGED <<list_title, children>>
     IN IF data_json.exc # "none" THEN raise(data_json.exc)
        ELSE IF ~Truthy(data_json.val) THEN stop("no_json")
        ELSE IF bookmarks_list.exc # "none" THEN raise(bookmarks_list.exc)
        ELSE IF ~Truthy(bookmarks_list.val) THEN stop("no_bookmarks_list")
        ELSE IF title.exc # "none" THEN raise(title.exc)
        ELSE IF ~Truthy(kids.val)
        THEN /\ pc' = "returned" /\ out' = Append(shown, "no_points") /\ exc' = "none"
             /\ list_title' = title.val.v
             /\ UNCHANGED children
        ELSE /\ pc' = "loop" /\ out' = shown /\ exc' = "none"
             /\ list_title' = title.val.v
             /\ children' = kids.val.v
  /\ UNCHANGED <<url, os_name, api_key, data, idx, gpx, net, file>>

-----------------------------------------------------------------------------
(* The loop over children *)

\* item.get("uri"), item.get("title", ...)
ItemUri(item) == DictGet(item, "uri", None).val
ItemTitle(item) == DictGet(item, "title", Str(DefaultTitle)).val.v

\* uri and "ymapsbm1://pin?ll=" in uri
IsPin(item) == Truthy(ItemUri(item)) /\ Contains(ItemUri(item).v, PinMarker)

\* elif uri and "ymapsbm1://org?oid=" in uri
IsOrg(item) == ~IsPin(item) /\ Truthy(ItemUri(item)) /\ Contains(ItemUri(item).v, OrgMarker)

\* Variant: the key is never found missing.
KeyMissingNever(key) == FALSE

\* not api_key
KeyMissing(key) == ~Truthy(key)

\* Variant: lat, lon = map(float, ...)
PinCoordsSwapped(uri) ==
  LET r == UnpackLonLat(Split(Unquote(Split(uri, "ll=")[2]), ","))
  IN IF r.exc # "none" THEN r ELSE Ok([lon |-> r.val.lat, lat |-> r.val.lon])

\* coords_str = unquote(uri.split("ll=")[1]); lon, lat = map(float, coords_str.split(","))
PinCoords(uri) == UnpackLonLat(Split(Unquote(Split(uri, "ll=")[2]), ","))

PosPath ==
  <<K("response"), K("GeoObjectCollection"), K("featureMember"), I(0),
    K("GeoObject"), K("Point"), K("pos")>>
TextPath ==
  <<K("response"), K("GeoObjectCollection"), K("featureMember"), I(0),
    K("GeoObject"), K("metaDataProperty"), K("GeocoderMetaData"), K("text")>>

\* lon, lat = map(float, pos.split(" "))
PosCoords(pos) == UnpackLonLat(Split(pos, " "))

\* Lines 117-125: the body of the try block, given the geocoder's answer.
GeoLookup(resp) ==
  IF resp.status # "ok" THEN Raise("RequestException")
  ELSE LET pos == Navigate(resp.body, PosPath)
           ll == PosCoords(pos.val.v)
           full_address == Navigate(resp.body, TextPath)
       IN IF pos.exc # "none" THEN pos
          ELSE IF pos.val.t # "str" THEN Raise("AttributeError")
          ELSE IF ll.exc # "none" THEN ll
          ELSE IF full_address.exc # "none" THEN full_address
          ELSE Ok([lon |-> ll.val.lon, lat |-> ll.val.lat,
                   address |-> IF Truthy(full_address.val)
                               THEN full_address.val.v ELSE DefaultAddress])

\* except requests.exceptions.RequestException / except (KeyError, IndexError)
Caught(e) == e \in {"RequestException", "KeyError", "IndexError"}

\* Lines 135-140: the wpt element
Waypoint(lon, lat, title, address) ==
  [lat |-> FloatStr(lat), lon |-> FloatStr(lon), name |-> title,
   type |-> list_title, address |-> address]

\* Variant: the loop stops one entry early.
AfterEntryOffByOne(i, n) == IF i >= n - 1 THEN "write" ELSE "loop"

\* Where the for loop stands after the entry at position i.
AfterEntry(i, n) == IF i >= n THEN "write" ELSE "loop"

NextEntry ==
  /\ idx' = idx + 1
  /\ pc' = AfterEntry(idx, Len(children))
  /\ exc' = "none"

InLoop == pc = "loop" /\ idx \in DOMAIN children

\* A pin entry: coordinates come from the uri.
ResolvePin ==
  /\ InLoop
  /\ IsPin(children[idx])
  /\ LET item == children[idx]
         ll == PinCoords(ItemUri(item).v)
     IN IF ll.exc # "none"
        THEN Crash(ll.exc) /\ UNCHANGED <<idx, gpx>>
        ELSE /\ gpx' = Append(gpx, Waypoint(ll.val.lon, ll.val.lat, ItemTitle(item), DefaultAddress))
             /\ NextEntry
  /\ UNCHANGED <<url, os_name, api_key, data, list_title, children, net, file, out>>

\* An org entry without an API key: warning and continue.
SkipNoKey ==
  /\ InLoop
  /\ IsOrg(children[idx])
  /\ KeyMissing(api_key)
  /\ Say("no_api_key")
  /\ NextEntry
  /\ UNCHANGED <<url, os_name, api_key, data, list_title, children, gpx, net, file>>

\* An org entry with an API key: one request to the geocoder.
ResolveOrg ==
  /\ InLoop
  /\ IsOrg(children[idx])
  /\ ~KeyMissing(api_key)
  /\ \E resp \in GeoResponses :
       LET r == GeoLookup(resp)
       IN /\ net' = Append(net, [op |-> "geo", idx |-> idx, resp |-> resp])
          /\ IF r.exc = "none"
             THEN /\ gpx' = Append(gpx, Waypoint(r.val.lon, r.val.lat, ItemTitle(children[idx]), r.val.address))
                  /\ NextEntry
                  /\ UNCHANGED out
             ELSE IF Caught(r.exc)
             THEN /\ Say(IF r.exc = "RequestException" THEN "geocoder_error" ELSE "geocoder_parse_error")
                  /\ NextEntry
                  /\ UNCHANGED gpx
             ELSE Crash(r.exc) /\ UNCHANGED <<idx, gpx, out>>
  /\ UNCHANGED <<url, os_name, api_key, data, list_title, children, file>>

\* Any other entry: lat and lon stay None, nothing is appended.
SkipEntry ==
  /\ InLoop
  /\ ~IsPin(children[idx])
  /\ ~IsOrg(children[idx])
  /\ NextEntry
  /\ UNCHANGED <<url, os_name, api_key, data, list_title, children, gpx, net, file, out>>

-----------------------------------------------------------------------------
(* The writer *)

\* os.path.join(a, b)
PathJoin(a, b) ==
  IF b # <<>> /\ Head(b) = "/" THEN b
  ELSE IF a = <<>> \/ a[Len(a)] = "/" THEN a \o b
  ELSE a \o <<"/">> \o b

\* list_title.replace(" ", "_")
CleanedTitle(title) == Replace(title, " ", "_")

\* os.path.join(output_dir, f"{cleaned_list_title}.gpx")
OutputFilename(dir, title) == PathJoin(dir, CleanedTitle(title) \o <<".gpx">>)

\* The directory open() creates the file in.
Dirname(path) ==
  LET slashes == {i \in DOMAIN path : path[i] = "/"}
  IN IF slashes = {} THEN <<>>
     ELSE LET p == CHOOSE i \in slashes : \A j \in slashes : j <= i
          IN IF p = 1 THEN <<"/">> ELSE SubSeq(path, 1, p - 1)

\* Lines 142-148: tree.write creates the file, or raises when its directory is missing.
Write ==
  /\ pc = "write"
  /\ LET output_filename == OutputFilename(output_dir, list_title)
     IN \E dir_exists \in BOOLEAN :
          /\ Dirname(output_filename) = output_dir => dir_exists
          /\ IF dir_exists
             THEN /\ file' = <<[path |-> output_filename, name |-> list_title, wpts |-> gpx]>>
                  /\ pc' = "done"
                  /\ Say("saved")
                  /\ exc' = "none"
             ELSE Crash("FileNotFoundError") /\ UNCHANGED <<file, out>>
  /\ UNCHANGED <<url, os_name, api_key, data, list_title, children, idx, gpx, net>>

Next ==
  \/ CheckDir
  \/ FetchFile
  \/ FetchHttp
  \/ Extract
  \/ ResolvePin
  \/ SkipNoKey
  \/ ResolveOrg
  \/ SkipEntry
  \/ Write

Spec == Init /\ [][Next]_vars

-----------------------------------------------------------------------------
(* Vocabulary of the properties, stated on the inputs and not through the    *)
(* operators of main().                                                      *)

Terminated == pc \in {"done", "returned", "crashed"}

HasUri(item) == item.t = "dict" /\ "uri" \in DOMAIN item.v
UriOf(item) == item.v.uri.v

\* ymapsbm1://pin?ll=... and ymapsbm1://org?oid=...
PinFormat(item) ==
  HasUri(item) /\ Len(UriOf(item)) >= 2 /\ SubSeq(UriOf(item), 1, 2) = PinMarker
OrgFormat(item) ==
  HasUri(item) /\ Len(UriOf(item)) >= 1 /\ SubSeq(UriOf(item), 1, 1) = OrgMarker

\* ymapsbm1://pin?ll=<a>,<b> with the comma possibly URL-encoded
PinOf(item, a, b) ==
  HasUri(item) /\ \E sep \in {",", "%2C"} : UriOf(item) = PinMarker \o <<a, sep, b>>
WellFormedPin(item) == \E a, b \in Literals : PinOf(item, a, b)

TitleOf(item) == IF "title" \in DOMAIN item.v THEN item.v.title.v ELSE DefaultTitle

\* The decimal form of the number a literal denotes.
Decimal(tok) == IF tok = "30.50" THEN "30.5" ELSE tok

\* A geocoder answer carrying "<a> <b>" as position and t as address text.
AnswerOf(resp, a, b, t) ==
  /\ resp.status = "ok"
  /\ resp.body = GeoData(List(<<Feature(Point(<<a, " ", b>>), Meta(t))>>))
GoodAnswer(resp) == \E a, b \in Literals, t \in {Addr, <<>>} : AnswerOf(resp, a, b, t)

GeoEvents == {i \in DOMAIN net : net[i].op = "geo"}
PageEvents == {i \in DOMAIN net : net[i].op = "page"}

\* The children list of a page that has the documented shape, <<>> otherwise.
DocumentedChildren(d) ==
  LET r == Navigate(d.body.json, <<K("config"), K("bookmarksPublicList"), K("children")>>)
  IN IF d.marker /\ d.body.wf /\ r.exc = "none" /\ r.val.t = "list" THEN <<r.val.v>> ELSE <<>>

\* config.bookmarksPublicList is present in the parsed JSON
HasKeyPath(d) ==
  Navigate(d.body.json, <<K("config"), K("bookmarksPublicList")>>).exc = "none"

\* The fetcher has handed a text to the extractor.
Fetched ==
  /\ pc \notin {"check_dir", "fetch"}
  /\ pc = "returned" => out[1] \notin {"no_output_dir", "read_error", "fetch_error"}
  /\ pc = "crashed" => exc \notin {"UnboundLocalError", "UnicodeDecodeError"}

\* The entries of kids that resolve: every pin entry, and every org entry whose
\* lookup was answered well.
Resolves(kids, i) ==
  \/ PinFormat(kids[i])
  \/ OrgFormat(kids[i]) /\ \E e \in GeoEvents : net[e].idx = i /\ GoodAnswer(net[e].resp)

RECURSIVE ResolvedTitles(_, _)
ResolvedTitles(kids, i) ==
  IF i > Len(kids) THEN <<>>
  ELSE (IF Resolves(kids, i) THEN <<TitleOf(kids[i])>> ELSE <<>>) \o ResolvedTitles(kids, i + 1)

-----------------------------------------------------------------------------
(* C1 *)

\* C1: for a valid page whose N >= 0 children are all pin-format or org-format
\* entries and with an API key present, the finished run has written a GPX
\* document with exactly M + (successful lookups) wpt elements, M the number of
\* pin entries, in the order of the children.
C1_WaypointCount ==
  (Terminated /\ Fetched /\ Truthy(api_key) /\ DocumentedChildren(data) # <<>>
     /\ \A i \in DOMAIN DocumentedChildren(data)[1] :
           PinFormat(DocumentedChildren(data)[1][i]) \/ OrgFormat(DocumentedChildren(data)[1][i]))
  => LET kids == DocumentedChildren(data)[1]
         M == Cardinality({i \in DOMAIN kids : PinFormat(kids[i])})
         S == Cardinality({i \in GeoEvents : GoodAnswer(net[i].resp)})
     IN /\ file # <<>>
        /\ Len(file[1].wpts) = M + S
        /\ [i \in DOMAIN file[1].wpts |-> file[1].wpts[i].name] = ResolvedTitles(kids, 1)

-----------------------------------------------------------------------------
(* C2 *)

\* C2: when the fetched text has no state-view script block, the run ends at
\* the extraction step: it never reaches the loop or the write step, no output
\* file is created and no geocoding request is issued.
C2_NoMarkerNoOutput ==
  (Fetched /\ ~data.marker)
  => /\ pc \in {"extract", "returned", "crashed"}
     /\ file = <<>>
     /\ GeoEvents = {}

\* A page without the block, whose whole text is JSON, has ended the run.
C2_Witness ==
  /\ Fetched /\ ~data.marker /\ data.body.wf
  /\ Terminated
  /\ out = <<"script_not_found">>

-----------------------------------------------------------------------------
(* C3 *)

\* C3: after each extraction failure (marker absent, malformed JSON, key path
\* config.bookmarksPublicList missing) the run has ended by printing a
\* diagnostic and returning, never through an unhandled exception.
C3_ExtractionFailureReturns ==
  (Fetched /\ pc # "extract" /\ (~data.marker \/ ~data.body.wf \/ ~HasKeyPath(data)))
  => pc = "returned" /\ exc = "none" /\ out # <<>>

-----------------------------------------------------------------------------
(* C4 *)

\* C4: the fetch step of a file URL, whatever os.name is, ends with the text
\* read or with a reported message and an early return; the fetch step of any
\* other URL issues exactly one GET and ends the same two ways.
C4_FetchEndsCleanly ==
  [][pc = "fetch" =>
       /\ \/ pc' = "extract"
          \/ pc' = "returned" /\ Len(out') = Len(out) + 1
       /\ url.scheme = "file" => net' = net
       /\ url.scheme # "file" => Len(net') = Len(net) + 1 /\ net'[Len(net')].op = "page"]_vars

-----------------------------------------------------------------------------
(* C5 *)

\* The name children of the written document, in document order.
Names(wpts) == [i \in DOMAIN wpts |-> wpts[i].name]

\* C5: without an API key no geocoding request is ever issued; the step that
\* handles an org-format entry emits no waypoint, leaves the waypoints of the
\* other entries alone and moves on to the next entry, or to the write step
\* after the last one; the saved document holds the waypoints of the other
\* entries, in order.
C5_NoKeySkipsEntry ==
  /\ [](~Truthy(api_key) => GeoEvents = {})
  /\ [][(pc = "loop" /\ idx \in DOMAIN children /\ OrgFormat(children[idx]) /\ ~Truthy(api_key))
          => /\ net' = net
             /\ gpx' = gpx
             /\ idx' = idx + 1
             /\ pc' = IF idx < Len(children) THEN "loop" ELSE "write"]_vars
  /\ []((pc = "done" /\ ~Truthy(api_key)) => Names(file[1].wpts) = ResolvedTitles(children, 1))

\* An org entry was skipped for want of a key, and the file was still saved
\* with the waypoint of the pin entry that follows it.
C5_Witness ==
  /\ pc = "done"
  /\ ~Truthy(api_key)
  /\ Len(children) >= 2 /\ OrgFormat(children[1]) /\ PinFormat(children[2])
  /\ out[1] = "no_api_key"
  /\ Len(file[1].wpts) >= 1

-----------------------------------------------------------------------------
(* C6 *)

\* C6: once the geocoder has answered an org entry with an HTTP error or with a
\* response that lacks a field, has an empty featureMember list, has a value
\* of the wrong shape or has a pos that is not two numbers, the loop has moved
\* past that entry without a waypoint for it and without aborting the run.
C6_BadAnswerSkipsEntry ==
  \A e \in GeoEvents :
    ~GoodAnswer(net[e].resp)
    => /\ pc # "crashed"
       /\ idx > net[e].idx
       /\ Names(gpx) = ResolvedTitles(SubSeq(children, 1, idx - 1), 1)

-----------------------------------------------------------------------------
(* C7 *)

\* C7: the step on a pin entry ymapsbm1://pin?ll=<a>,<b> (comma possibly
\* URL-encoded) appends a waypoint with lon = a, lat = b, the entry's title as
\* name and the list title as type; the step on an org entry answered with
\* pos "<a> <b>" appends a waypoint with lon = a and lat = b as well.
C7_LonThenLat ==
  [][(pc = "loop" /\ idx \in DOMAIN children) =>
       /\ \A a, b \in Literals :
            PinOf(children[idx], a, b)
            => gpx' = Append(gpx, [lon |-> Decimal(a), lat |-> Decimal(b),
                                   name |-> TitleOf(children[idx]), type |-> list_title,
                                   address |-> DefaultAddress])
       /\ \A a, b \in Literals, t \in {Addr, <<>>} :
            (OrgFormat(children[idx]) /\ Len(net') > Len(net) /\ AnswerOf(net'[Len(net')].resp, a, b, t))
            => gpx' = Append(gpx, [lon |-> Decimal(a), lat |-> Decimal(b),
                                   name |-> TitleOf(children[idx]), type |-> list_title,
                                   address |-> IF t = <<>> THEN DefaultAddress ELSE t])]_vars

\* The scenario of the specification: list "My Spots" with the single entry
\* ymapsbm1://pin?ll=37.6,55.7 titled "Point A" is saved as My_Spots.gpx.
C7_Witness ==
  /\ pc = "done"
  /\ list_title = <<"My", " ", "Spots">>
  /\ Len(children) = 1 /\ PinOf(children[1], "37.6", "55.7")
  /\ file[1].path = <<"out", "/", "My", "_", "Spots", ".gpx">>
  /\ file[1].wpts = <<[lat |-> "55.7", lon |-> "37.6", name |-> <<"Point", " ", "A">>,
                       type |-> <<"My", " ", "Spots">>, address |-> DefaultAddress]>>

-----------------------------------------------------------------------------
(* C8 *)

\* C8: the written file's path is output_dir, a separator, the list title with
\* every space replaced by "_" and nothing else changed, and ".gpx"; the file
\* lies directly under output_dir.
C8_FileDirectlyUnderOutputDir ==
  file # <<>>
  => LET path == file[1].path
         n == Len(output_dir)
         base == SubSeq(path, n + 2, Len(path))
     IN /\ Len(path) >= n + 2
        /\ SubSeq(path, 1, n) = output_dir
        /\ path[n + 1] = "/"
        /\ \A i \in DOMAIN base : base[i] # "/"
        /\ Len(base) = Len(list_title) + 1
        /\ base[Len(base)] = ".gpx"
        /\ \A i \in DOMAIN list_title :
             base[i] = IF list_title[i] = " " THEN "_" ELSE list_title[i]

-----------------------------------------------------------------------------
(* C9 *)

\* An entry without uri, with a uri of neither format, or with a pin uri whose
\* text after ll= is not two comma-separated numbers.
Unresolvable(item) ==
  \/ ~HasUri(item)
  \/ ~PinFormat(item) /\ ~OrgFormat(item)
  \/ PinFormat(item) /\ ~WellFormedPin(item)

\* C9: an entry without identifier, of neither format or with a malformed pin
\* never aborts the run: the loop has not stopped at such an entry with an
\* unhandled exception, and no waypoint stands for it.
C9_UnresolvableEntrySkipped ==
  /\ (pc = "crashed" /\ idx \in DOMAIN children) => ~Unresolvable(children[idx])
  /\ Names(gpx) = ResolvedTitles(SubSeq(children, 1, idx - 1), 1)

-----------------------------------------------------------------------------
(* C10 *)

\* C10: at most one page fetch, first of all requests; geocoding requests only
\* for org-format entries, in children order, at most one per entry, none for
\* an entry the loop has not reached; the file is written at most once, only
\* after the last entry, and nothing is requested or written after it.
C10_RequestOrder ==
  /\ [](/\ PageEvents \subseteq {1}
        /\ url.scheme = "file" => PageEvents = {}
        /\ \A e \in GeoEvents :
             /\ net[e].idx \in DOMAIN children
             /\ OrgFormat(children[net[e].idx])
             /\ net[e].idx <= idx
             /\ net[e].idx = idx => pc = "crashed"
        /\ \A e1, e2 \in GeoEvents : e1 < e2 => net[e1].idx < net[e2].idx
        /\ pc \in {"write", "done"} => idx = Len(children) + 1
        /\ file # <<>> => pc = "done")
  /\ [][file # <<>> => file' = file /\ net' = net]_vars

\* A saved run that fetched the page over HTTP, had its first lookup fail,
\* took the second entry from a pin and looked the third one up.
C10_Witness ==
  /\ pc = "done"
  /\ Len(children) = 3
  /\ Len(net) = 3
  /\ net[1].op = "page"
  /\ net[2].op = "geo" /\ net[2].idx = 1 /\ ~GoodAnswer(net[2].resp)
  /\ PinFormat(children[2])
  /\ net[3].op = "geo" /\ net[3].idx = 3
  /\ Len(file[1].wpts) = 2

====
